---------------------------- MODULE Spec2Model ----------------------------
(***************************************************************************)
(* Model of src/src/datasetutils.py: the cleaning-and-aggregation pipeline *)
(* of the directory loaders.                                               *)
(*                                                                         *)
(* A text is a sequence of one-character strings.  A cell of a DataFrame   *)
(* is a record [k, n, d, s]: k is the kind of the Python value ("int",     *)
(* "float", "str" or "nan"); n/d is the value of a number (d = 1 except    *)
(* for a mean); s is the text of a str.  A DataFrame is a sequence of      *)
(* rows [idx, c]: idx is the row's index label, c maps column names to     *)
(* cells.                                                                  *)
(***************************************************************************)
EXTENDS Integers, Sequences, FiniteSets, TLC

\* ------------------------------------------------------------------ bounds
\* Rows over all the files of the file system of one run.
MaxRows == 2
\* Entries of one directory listing.
MaxFiles == 2
\* Directories handed to load_multiple_datasets_average_hours.
MaxDirs == 2

\* ----------------------------------------------------------------- catalog
keyword_type_map ==
    [col \in {"unixtimestamp", "hhmmss", "R_BauBGb-P_SUM", "E_GLOBAL", "T_AMB",
              "P_AIR", "YYYYMMDD", "AEZ-P_SUM", "R_BauTGb-P_SUM",
              "PV_SolarLog_30kW-P_SUM", "PV_120kW-P_SUM", "R_BauBGa-P_SUM",
              "R_Bau_TGa-P_SUM", "E_BauXa-P_SUM", "E_BauXb-P_SUM"} |->
        CASE col = "hhmmss" -> "object"
          [] col = "YYYYMMDD" -> "str"
          [] OTHER -> "float64"]

value_limits ==
    [col \in {"AEZ-P_SUM", "R_BauBGa-P_SUM", "R_BauBGb-P_SUM", "R_Bau_TGa-P_SUM",
              "R_BauTGb-P_SUM", "PV_120kW-P_SUM"} |->
        CASE col = "AEZ-P_SUM" -> <<5, 75>>
          [] col = "R_BauBGa-P_SUM" -> <<5, 60>>
          [] col = "R_BauBGb-P_SUM" -> <<5, 40>>
          [] col = "R_Bau_TGa-P_SUM" -> <<25, 250>>
          [] col = "R_BauTGb-P_SUM" -> <<35, 275>>
          [] col = "PV_120kW-P_SUM" -> <<0, 120>>]

\* ------------------------------------------------------------------- texts
Digit == {"0", "1", "2", "3", "4", "5", "6", "7", "8", "9"}

DigitVal(ch) ==
    CASE ch = "0" -> 0 [] ch = "1" -> 1 [] ch = "2" -> 2 [] ch = "3" -> 3
      [] ch = "4" -> 4 [] ch = "5" -> 5 [] ch = "6" -> 6 [] ch = "7" -> 7
      [] ch = "8" -> 8 [] ch = "9" -> 9

DigitChar(v) ==
    CASE v = 0 -> "0" [] v = 1 -> "1" [] v = 2 -> "2" [] v = 3 -> "3"
      [] v = 4 -> "4" [] v = 5 -> "5" [] v = 6 -> "6" [] v = 7 -> "7"
      [] v = 8 -> "8" [] v = 9 -> "9"

\* Code point order of the characters the model uses (for sorting str keys).
Ord(ch) ==
    CASE ch = "." -> 46
      [] ch \in Digit -> 48 + DigitVal(ch)
      [] ch = "a" -> 97 [] ch = "e" -> 101 [] ch = "n" -> 110
      [] ch = "r" -> 114 [] ch = "x" -> 120

\* float(text) succeeds: over the model's alphabet (digits, ".", letters a e n
\* r x, none of it of the form "1e5", "1." or "nan") these are the non-empty
\* all-digit texts.
IsNumeric(t) == Len(t) > 0 /\ \A i \in 1..Len(t) : t[i] \in Digit

RECURSIVE ParseNum(_)
ParseNum(t) ==
    IF Len(t) = 0 THEN 0
    ELSE 10 * ParseNum(SubSeq(t, 1, Len(t) - 1)) + DigitVal(t[Len(t)])

RECURSIVE Digits(_)
Digits(v) ==
    IF v < 10 THEN <<DigitChar(v)>>
    ELSE Digits(v \div 10) \o <<DigitChar(v % 10)>>

\* Python's s[a:b] for 0 <= a <= b.
Slice(t, a, b) == SubSeq(t, a + 1, IF b < Len(t) THEN b ELSE Len(t))

\* Python's `pat in t`.
HasSub(t, pat) ==
    \E i \in 1..(Len(t) - Len(pat) + 1) : SubSeq(t, i, i + Len(pat) - 1) = pat

\* Lexicographic order of two texts.
RECURSIVE TextLess(_, _)
TextLess(a, b) ==
    IF Len(b) = 0 THEN FALSE
    ELSE IF Len(a) = 0 THEN TRUE
    ELSE IF a[1] = b[1] THEN TextLess(Tail(a), Tail(b))
    ELSE Ord(a[1]) < Ord(b[1])

\* ------------------------------------------------------------------- cells
NaN == [k |-> "nan", n |-> 0, d |-> 1, s |-> <<>>]
IntCell(v) == [k |-> "int", n |-> v, d |-> 1, s |-> <<>>]
FloatCell(v, w) == [k |-> "float", n |-> v, d |-> w, s |-> <<>>]
StrCell(t) == [k |-> "str", n |-> 0, d |-> 1, s |-> t]

IsNum(val) == val.k \in {"int", "float"}

\* "{}".format(val), for the values a frame holds before aggregation (d = 1).
Format(val) ==
    CASE val.k = "str" -> val.s
      [] val.k = "nan" -> <<"n", "a", "n">>
      [] val.k = "int" -> Digits(val.n)
      [] val.k = "float" /\ val.d = 1 -> Digits(val.n) \o <<".", "0">>

\* ------------------------------------------------------------------ frames
NoExc == "none"

ColumnsOf(row) == DOMAIN row.c

RECURSIVE Reindex(_, _)
\* The rows of df with a fresh RangeIndex starting at `from`.
Reindex(df, from) ==
    IF Len(df) = 0 THEN <<>>
    ELSE <<[idx |-> from, c |-> df[1].c]>> \o Reindex(Tail(df), from + 1)

\* The header of every source file of the model: catalog columns and one column
\* the catalog does not know (the selections name one more, Y_ABSENT, that
\* neither the files nor the catalog have).
FileColumns ==
    {"AEZ-P_SUM", "R_BauBGa-P_SUM", "T_AMB", "YYYYMMDD", "hhmmss", "X_UNKNOWN"}

\* pandas' type inference for one column of a parsed file: a column whose
\* present cells are all numbers is int64, float64 once a cell is missing;
\* any other column keeps the texts; hhmmss is read with dtype object.
ReadCell(rows, i, col) ==
    LET t == rows[i][col]
        numeric == \A j \in 1..Len(rows) :
                       rows[j][col] = <<>> \/ IsNumeric(rows[j][col])
        missing == \E j \in 1..Len(rows) : rows[j][col] = <<>>
    IN  IF t = <<>> THEN NaN
        ELSE IF col = "hhmmss" THEN StrCell(t)
        ELSE IF ~numeric THEN StrCell(t)
        ELSE IF missing THEN FloatCell(ParseNum(t), 1)
        ELSE IntCell(ParseNum(t))

\* pd.read_csv(file, sep=';', dtype={'hhmmss': object})[col_of_interest]
read_csv(rows, cols) ==
    IF \E k \in 1..Len(cols) : cols[k] \notin FileColumns
    THEN [df |-> <<>>, exc |-> "KeyError"]
    ELSE [df |-> [i \in 1..Len(rows) |->
                    [idx |-> i - 1,
                     c |-> [col \in {cols[k] : k \in 1..Len(cols)} |->
                              ReadCell(rows, i, col)]]],
          exc |-> NoExc]

contains_error_equals(val) ==
    IF Format(val) = <<"e", "r", "r">> THEN NaN ELSE val

contains_error(val) ==
    IF HasSub(Format(val), <<"e", "r", "r">>) THEN NaN ELSE val

applymap_skipped(df) == df

\* df.applymap(lambda x: contains_error(x))
applymap_contains_error(df) ==
    [i \in 1..Len(df) |->
        [idx |-> df[i].idx,
         c |-> [col \in ColumnsOf(df[i]) |-> contains_error(df[i].c[col])]]]

HasNaN(row) == \E col \in ColumnsOf(row) : row.c[col].k = "nan"

RECURSIVE dropna(_)
dropna(df) ==
    IF Len(df) = 0 THEN <<>>
    ELSE (IF HasNaN(df[1]) THEN <<>> ELSE <<df[1]>>) \o dropna(Tail(df))

\* Series.astype(dtype) on one value: whether it succeeds, and its result.
CanCast(val, dtype) == dtype = "float64" /\ val.k = "str" => IsNumeric(val.s)

Cast(val, dtype) ==
    CASE dtype = "object" -> val
      [] dtype = "float64" ->
            (CASE val.k = "int" -> FloatCell(val.n, 1)
               [] val.k = "str" -> FloatCell(ParseNum(val.s), 1)
               [] OTHER -> val)
      [] dtype = "str" ->
            (CASE val.k = "str" -> val
               [] OTHER -> StrCell(Format(val)))

\* df[col] = vals: the column is replaced, or added.
SetColumn(df, col, vals) ==
    [i \in 1..Len(df) |->
        [idx |-> df[i].idx,
         c |-> [x \in ColumnsOf(df[i]) \cup {col} |->
                  IF x = col THEN vals[i] ELSE df[i].c[x]]]]

RECURSIVE TypeConversionFrom(_, _, _)
TypeConversionFrom(df, cols, k) ==
    IF k > Len(cols) THEN [df |-> df, exc |-> NoExc]
    ELSE IF cols[k] \notin DOMAIN keyword_type_map
    THEN [df |-> df, exc |-> "KeyError"]
    ELSE LET col == cols[k]
             dtype == keyword_type_map[col]
             conv == [i \in 1..Len(df) |-> Cast(df[i].c[col], dtype)]
         IN  IF \E i \in 1..Len(df) : ~CanCast(df[i].c[col], dtype)
             THEN [df |-> df, exc |-> "ValueError"]
             ELSE TypeConversionFrom(SetColumn(df, col, conv), cols, k + 1)

\* The conversion of the columns the catalog knows, the others left alone.
apply_type_conversion_known(df, cols) ==
    TypeConversionFrom(
        df, SelectSeq(cols, LAMBDA col : col \in DOMAIN keyword_type_map), 1)

apply_type_conversion(df, cols) == TypeConversionFrom(df, cols, 1)

\* val < x and val > x of a numeric Series element; NaN compares False.
Below(val, x) == IsNum(val) /\ val.n < x * val.d

AboveOrEqual(val, x) == IsNum(val) /\ val.n >= x * val.d

Above(val, x) == IsNum(val) /\ val.n > x * val.d

\* df[col] < x and df[col] > x: the rows of the mask.
BelowMask(df, col, x) == {i \in 1..Len(df) : Below(df[i].c[col], x)}
AboveMask(df, col, x) == {i \in 1..Len(df) : Above(df[i].c[col], x)}

\* df[mask] = np.nan: every cell of the masked rows becomes NaN.
SetRowsNaN(df, mask) ==
    [i \in 1..Len(df) |->
        IF i \in mask
        THEN [idx |-> df[i].idx, c |-> [col \in ColumnsOf(df[i]) |-> NaN]]
        ELSE df[i]]

\* df.loc[mask, col] = np.nan: only the cell of the column becomes NaN.
SetCellsNaN(df, col, mask) ==
    [i \in 1..Len(df) |->
        IF i \in mask
        THEN [idx |-> df[i].idx,
              c |-> [x \in ColumnsOf(df[i]) |->
                       IF x = col THEN NaN ELSE df[i].c[x]]]
        ELSE df[i]]

LimitColumnOnly(df, col) ==
    LET lo == value_limits[col][1]
        hi == value_limits[col][2]
        blanked == SetCellsNaN(df, col, BelowMask(df, col, lo))
    IN  SetCellsNaN(blanked, col, AboveMask(blanked, col, hi))

LimitColumn(df, col) ==
    LET lo == value_limits[col][1]
        hi == value_limits[col][2]
        blanked == SetRowsNaN(df, BelowMask(df, col, lo))
    IN  SetRowsNaN(blanked, AboveMask(blanked, col, hi))

RECURSIVE LimitsFrom(_, _, _)
LimitsFrom(df, cols, k) ==
    IF k > Len(cols) THEN df
    ELSE IF cols[k] \in DOMAIN value_limits
    THEN LimitsFrom(LimitColumn(df, cols[k]), cols, k + 1)
    ELSE LimitsFrom(df, cols, k + 1)

apply_limits(df, cols) == LimitsFrom(df, cols, 1)

\* df[src].str[a:b].astype(np.float64), assigned to df[col]: the accessor needs
\* str values, the conversion a numeric slice in every row.
DeriveColumn(r, col, src, a, b) ==
    LET cut(row) == Slice(row.c[src].s, a, b)
        conv == [i \in 1..Len(r.df) |-> FloatCell(ParseNum(cut(r.df[i])), 1)]
    IN  IF r.exc # NoExc THEN r
        ELSE IF \E i \in 1..Len(r.df) : r.df[i].c[src].k # "str"
        THEN [df |-> r.df, exc |-> "AttributeError"]
        ELSE IF \E i \in 1..Len(r.df) : ~IsNumeric(cut(r.df[i]))
        THEN [df |-> r.df, exc |-> "ValueError"]
        ELSE [df |-> SetColumn(r.df, col, conv), exc |-> NoExc]

\* Hour taken from hhmmss[2:4].
add_time_columns_minutes(df) ==
    DeriveColumn(
        DeriveColumn(
            DeriveColumn([df |-> df, exc |-> NoExc], "Month", "YYYYMMDD", 4, 6),
            "Day", "YYYYMMDD", 6, 8),
        "Hour", "hhmmss", 2, 4)

add_time_columns(df) ==
    DeriveColumn(
        DeriveColumn(
            DeriveColumn([df |-> df, exc |-> NoExc], "Month", "YYYYMMDD", 4, 6),
            "Day", "YYYYMMDD", 6, 8),
        "Hour", "hhmmss", 0, 2)

\* ------------------------------------------------------- groupby(...).mean()
RECURSIVE GCD(_, _)
GCD(a, b) == IF b = 0 THEN a ELSE GCD(b, a % b)

\* The group key of a row: (Hour, YYYYMMDD).
KeyOf(row) == <<row.c["Hour"].n, row.c["YYYYMMDD"].s>>

KeyLess(a, b) == a[1] < b[1] \/ (a[1] = b[1] /\ TextLess(a[2], b[2]))

RECURSIVE SortedKeys(_)
SortedKeys(S) ==
    IF S = {} THEN <<>>
    ELSE LET m == CHOOSE x \in S : \A y \in S \ {x} : KeyLess(x, y)
         IN  <<m>> \o SortedKeys(S \ {m})

RECURSIVE SumOver(_, _, _)
\* The sum of column col over the rows of df whose key is key.
SumOver(df, col, key) ==
    IF Len(df) = 0 THEN 0
    ELSE (IF KeyOf(df[1]) = key THEN df[1].c[col].n ELSE 0)
         + SumOver(Tail(df), col, key)

RECURSIVE CountOver(_, _)
CountOver(df, key) ==
    IF Len(df) = 0 THEN 0
    ELSE (IF KeyOf(df[1]) = key THEN 1 ELSE 0) + CountOver(Tail(df), key)

SumCell(total, cnt) == FloatCell(total, 1)

\* total / cnt, as a fraction in lowest terms.
MeanCell(total, cnt) ==
    LET g == GCD(total, cnt) IN FloatCell(total \div g, cnt \div g)

\* The columns mean() reduces: the numeric ones that are not group keys (a
\* column of str, as hhmmss, is left out of the result).
MeanColumns(df) ==
    {col \in ColumnsOf(df[1]) \ {"Hour", "YYYYMMDD"} :
        \A i \in 1..Len(df) : IsNum(df[i].c[col])}

\* df.groupby(['Hour', 'YYYYMMDD'], as_index=False).mean(): one row per key, the
\* keys sorted, a fresh RangeIndex.
groupby_mean(df) ==
    IF Len(df) = 0 THEN <<>>
    ELSE LET keys == SortedKeys({KeyOf(df[i]) : i \in 1..Len(df)})
         IN  [g \in 1..Len(keys) |->
                [idx |-> g - 1,
                 c |-> [col \in {"Hour", "YYYYMMDD"} \cup MeanColumns(df) |->
                          CASE col = "Hour" -> FloatCell(keys[g][1], 1)
                            [] col = "YYYYMMDD" -> StrCell(keys[g][2])
                            [] OTHER -> MeanCell(SumOver(df, col, keys[g]),
                                                 CountOver(df, keys[g]))]]]

\* ------------------------------------------------------------------ concat
\* The rows of both frames averaged again by key (where they have one).
concat_regrouped(big, tmp) ==
    LET both == big \o tmp
    IN  IF Len(both) > 0 /\ "Hour" \in ColumnsOf(both[1])
        THEN groupby_mean(both)
        ELSE Reindex(both, 0)

\* pd.concat([big_df, df_tmp], ignore_index=True)
concat_ignore_index(big, tmp) == Reindex(big \o tmp, 0)

concat_prepended(ret, tmp) == tmp \o ret

\* pd.concat([df_ret, df_tmp]): the rows keep their index labels.
concat_keep_index(ret, tmp) == ret \o tmp

\* ------------------------------------------------------------------ inputs
BaseRow ==
    [col \in FileColumns |->
        CASE col = "AEZ-P_SUM" -> <<"1", "0">>
          [] col = "R_BauBGa-P_SUM" -> <<"3", "0">>
          [] col = "T_AMB" -> <<"7">>
          [] col = "YYYYMMDD" -> <<"2", "0", "2", "3", "0", "6", "1", "5">>
          [] col = "hhmmss" -> <<"0", "9", "3", "0", "0", "0">>
          [] col = "X_UNKNOWN" -> <<"1">>]

\* The rows a source file may hold: valid ones (two of one hour of one day, one
\* of another hour of an earlier day on the limits, one of the same hour of the
\* next day), and one per defect.
RawRows ==
    { BaseRow,
      [BaseRow EXCEPT !["AEZ-P_SUM"] = <<"2", "0">>,
                      !["hhmmss"] = <<"0", "9", "4", "5", "0", "0">>],
      [BaseRow EXCEPT !["AEZ-P_SUM"] = <<"7", "5">>,
                      !["R_BauBGa-P_SUM"] = <<"5">>,
                      !["YYYYMMDD"] = <<"2", "0", "2", "3", "0", "6", "1", "4">>,
                      !["hhmmss"] = <<"1", "0", "3", "0", "0", "0">>],
      [BaseRow EXCEPT !["AEZ-P_SUM"] = <<"4", "0">>,
                      !["YYYYMMDD"] = <<"2", "0", "2", "3", "0", "6", "1", "6">>],
      [BaseRow EXCEPT !["AEZ-P_SUM"] = <<"8", "0">>],
      [BaseRow EXCEPT !["R_BauBGa-P_SUM"] = <<"4">>],
      [BaseRow EXCEPT !["AEZ-P_SUM"] = <<"e", "r", "r", "x">>,
                      !["T_AMB"] = <<"x">>],
      [BaseRow EXCEPT !["T_AMB"] = <<"x">>],
      [BaseRow EXCEPT !["R_BauBGa-P_SUM"] = <<>>],
      [BaseRow EXCEPT !["hhmmss"] = <<"0", "9", "3", "0">>],
      [BaseRow EXCEPT !["YYYYMMDD"] = <<"2", "0", "2", "3", "0", "6">>],
      [BaseRow EXCEPT !["hhmmss"] = <<"x", "x", "3", "0", "0", "0">>] }

\* A directory entry: a name that ends with ".csv" or not, and the file's rows
\* (those of another file are never read).
Entries(r) ==
    {[csv |-> FALSE, rows |-> <<>>]}
    \cup {[csv |-> TRUE, rows |-> t] :
            t \in UNION {[1..m -> RawRows] : m \in 0..r}}

RECURSIVE Listings(_, _)
\* The directory listings of at most k entries and r rows, with the rows left.
Listings(k, r) ==
    {[list |-> <<>>, left |-> r]}
    \cup (IF k = 0 THEN {}
          ELSE UNION {{[list |-> <<e>> \o l.list, left |-> l.left] :
                         l \in Listings(k - 1, r - Len(e.rows))} :
                      e \in Entries(r)})

RECURSIVE FileSystems(_, _)
\* The sequences of exactly n directories holding at most r rows.
FileSystems(n, r) ==
    IF n = 0 THEN {<<>>}
    ELSE UNION {{<<l.list>> \o rest : rest \in FileSystems(n - 1, l.left)} :
                l \in Listings(MaxFiles, r)}

ColumnSelections ==
    { <<"AEZ-P_SUM", "R_BauBGa-P_SUM", "T_AMB", "YYYYMMDD", "hhmmss">>,
      <<"AEZ-P_SUM", "R_BauBGa-P_SUM", "YYYYMMDD", "hhmmss">>,
      <<"AEZ-P_SUM", "X_UNKNOWN", "YYYYMMDD", "hhmmss">>,
      <<"AEZ-P_SUM", "Y_ABSENT", "YYYYMMDD", "hhmmss">> }

\* ------------------------------------------------------------------- state
VARIABLES
    fs,               \* the directories: fs[d] is os.listdir's answer, in order
    op,               \* the public function called
    col_of_interest,  \* its second argument
    pc,               \* the position in the program
    d,                \* load_multiple_datasets_average_hours: the directory
    fi,               \* the position of `filename` in directory_list
    file_cnt,
    df_tmp,           \* the loader's df_tmp
    big_df,
    df_ret,
    open,             \* the file handles that are open, as <<d, fi>>
    exc               \* the exception that is propagating, and its origin

vars == <<fs, op, col_of_interest, pc, d, fi, file_cnt, df_tmp, big_df,
          df_ret, open, exc>>

NoException == [type |-> NoExc, at |-> "none"]

Init ==
    /\ op \in {"partial", "average_hours", "multiple"}
    /\ fs \in IF op = "multiple"
              THEN UNION {FileSystems(n, MaxRows) : n \in 0..MaxDirs}
              ELSE FileSystems(1, MaxRows)
    /\ col_of_interest \in ColumnSelections
    /\ pc = IF op = "multiple" THEN "for_d" ELSE "enter"
    /\ d = 1
    /\ fi = 0
    /\ file_cnt = 0
    /\ df_tmp = <<>>
    /\ big_df = <<>>
    /\ df_ret = <<>>
    /\ open = {}
    /\ exc = NoException

\* ----------------------------------------------------------------- actions
Averaging == op \in {"average_hours", "multiple"}

\* The source file that is being processed.
Source == fs[d][fi]

\* load_multiple_datasets_average_hours: `for d in direcotries`, and the return
\* of df_ret after the last directory.
ForDirectory ==
    /\ pc = "for_d"
    /\ pc' = IF d <= Len(fs) THEN "enter" ELSE "done"
    /\ UNCHANGED <<fs, op, col_of_interest, d, fi, file_cnt, df_tmp, big_df,
                   df_ret, open, exc>>

\* big_df = pd.DataFrame(); file_cnt = 0; directory_list = os.listdir(directory)
Enter ==
    /\ pc = "enter"
    /\ big_df' = <<>>
    /\ file_cnt' = 0
    /\ fi' = 1
    /\ pc' = "for_filename"
    /\ UNCHANGED <<fs, op, col_of_interest, d, df_tmp, df_ret, open, exc>>

\* for filename in directory_list: a name that does not end with ".csv".
SkipFilename ==
    /\ pc = "for_filename"
    /\ fi <= Len(fs[d])
    /\ ~Source.csv
    /\ fi' = fi + 1
    /\ UNCHANGED <<fs, op, col_of_interest, pc, d, file_cnt, df_tmp, big_df,
                   df_ret, open, exc>>

\* for filename in directory_list: if filename.endswith(".csv"): file_cnt += 1
TakeFilename ==
    /\ pc = "for_filename"
    /\ fi <= Len(fs[d])
    /\ Source.csv
    /\ file_cnt' = file_cnt + 1
    /\ pc' = "open"
    /\ UNCHANGED <<fs, op, col_of_interest, d, fi, df_tmp, big_df, df_ret,
                   open, exc>>

EndOfListing ==
    /\ pc = "for_filename"
    /\ fi > Len(fs[d])
    /\ pc' = "return"
    /\ UNCHANGED <<fs, op, col_of_interest, d, fi, file_cnt, df_tmp, big_df,
                   df_ret, open, exc>>

\* with open(file) as f:
OpenFile ==
    /\ pc = "open"
    /\ open' = open \cup {<<d, fi>>}
    /\ pc' = "read_csv"
    /\ UNCHANGED <<fs, op, col_of_interest, d, fi, file_cnt, df_tmp, big_df,
                   df_ret, exc>>

\* One statement of the with block that may raise: on success df_tmp is its
\* result and control goes on; an exception leaves the block.
Statement(at, r, next) ==
    /\ pc = at
    /\ IF r.exc = NoExc
       THEN /\ df_tmp' = r.df
            /\ pc' = next
            /\ exc' = exc
       ELSE /\ df_tmp' = r.df
            /\ pc' = "exit_with"
            /\ exc' = [type |-> r.exc, at |-> at]
    /\ UNCHANGED <<fs, op, col_of_interest, d, fi, file_cnt, big_df, df_ret,
                   open>>

Returns(df) == [df |-> df, exc |-> NoExc]

ReadCsv ==
    Statement("read_csv", read_csv(Source.rows, col_of_interest), "applymap")

TagErrors ==
    Statement("applymap", Returns(applymap_contains_error(df_tmp)), "dropna1")

DropErrors == Statement("dropna1", Returns(dropna(df_tmp)), "astype")

TypeConversion ==
    Statement("astype", apply_type_conversion(df_tmp, col_of_interest),
              "apply_limits")

Limits ==
    Statement("apply_limits", Returns(apply_limits(df_tmp, col_of_interest)),
              "dropna2")

DropViolations ==
    Statement("dropna2", Returns(dropna(df_tmp)),
              IF Averaging THEN "add_time_columns" ELSE "concat")

TimeColumns ==
    Statement("add_time_columns", add_time_columns(df_tmp), "groupby")

GroupBy == Statement("groupby", Returns(groupby_mean(df_tmp)), "concat")

\* big_df = pd.concat([big_df, df_tmp], ignore_index=True)
Concat ==
    /\ pc = "concat"
    /\ big_df' = concat_ignore_index(big_df, df_tmp)
    /\ pc' = "exit_with"
    /\ UNCHANGED <<fs, op, col_of_interest, d, fi, file_cnt, df_tmp, df_ret,
                   open, exc>>

ReleaseUnlessRaised(handles, h, e) ==
    IF e.type = NoExc THEN handles \ {h} ELSE handles

\* The context manager of `with open(file) as f` closes f however the block
\* is left.
Release(handles, h, e) == handles \ {h}

\* The end of the with block: by falling through (the loop goes on) or by an
\* exception, which leaves the loader.
ExitWith ==
    /\ pc = "exit_with"
    /\ open' = Release(open, <<d, fi>>, exc)
    /\ IF exc.type = NoExc
       THEN pc' = "for_filename" /\ fi' = fi + 1
       ELSE pc' = "raised" /\ fi' = fi
    /\ UNCHANGED <<fs, op, col_of_interest, d, file_cnt, df_tmp, big_df,
                   df_ret, exc>>

\* return big_df; in load_multiple_datasets_average_hours the caller goes on
\* with df_ret = pd.concat([df_ret, df_tmp]).
Return ==
    /\ pc = "return"
    /\ IF op = "multiple"
       THEN /\ df_ret' = concat_keep_index(df_ret, big_df)
            /\ d' = d + 1
            /\ pc' = "for_d"
       ELSE /\ df_ret' = df_ret
            /\ d' = d
            /\ pc' = "done"
    /\ UNCHANGED <<fs, op, col_of_interest, fi, file_cnt, df_tmp, big_df,
                   open, exc>>

Next ==
    \/ ForDirectory
    \/ Enter
    \/ SkipFilename
    \/ TakeFilename
    \/ EndOfListing
    \/ OpenFile
    \/ ReadCsv
    \/ TagErrors
    \/ DropErrors
    \/ TypeConversion
    \/ Limits
    \/ DropViolations
    \/ TimeColumns
    \/ GroupBy
    \/ Concat
    \/ ExitWith
    \/ Return

Spec == Init /\ [][Next]_vars

\* What the call returned.
Result == IF op = "multiple" THEN df_ret ELSE big_df

\* ------------------------------------------------------------------ claims
Selected == {col_of_interest[k] : k \in 1..Len(col_of_interest)}

ErrMarker == <<"e", "r", "r">>

\* The row of the source file a row of df_tmp was read from.
RawOf(row) == Source.rows[row.idx + 1]

\* A row of a source file with the error marker in the text of a selected cell.
RawHasErr(raw) == \E col \in Selected : HasSub(raw[col], ErrMarker)

\* df_tmp holds rows of the source, after the error tagging and the first
\* dropna, before any aggregation.
AfterErrorDrop ==
    \/ pc \in {"astype", "apply_limits", "dropna2", "add_time_columns",
               "groupby"}
    \/ pc = "concat" /\ ~Averaging

\* C1: a row of a source with "err" in the text of a selected cell is in no
\* cleaned batch of that source, whatever its other cells hold, and no cell of
\* the dataset load_dataset_from_directory_partial builds holds the marker.
C1_ErrorRowsAbsent ==
    /\ AfterErrorDrop =>
          \A i \in 1..Len(df_tmp) : ~RawHasErr(RawOf(df_tmp[i]))
    /\ op = "partial" =>
          \A i \in 1..Len(big_df) : \A col \in ColumnsOf(big_df[i]) :
              ~HasSub(Format(big_df[i].c[col]), ErrMarker)

\* A source with an error row and a row that survives, after the first dropna.
C1_Witness ==
    /\ pc = "astype"
    /\ Len(df_tmp) = 1
    /\ \E j \in 1..Len(Source.rows) : RawHasErr(Source.rows[j])

\* A limited column the call selected.
LimitedSelected == Selected \cap DOMAIN value_limits

InRange(val, col) ==
    /\ IsNum(val)
    /\ value_limits[col][1] * val.d <= val.n
    /\ val.n <= value_limits[col][2] * val.d

\* The text of a source row is outside the declared range of a selected column.
RawViolates(raw) ==
    \E col \in LimitedSelected :
        \/ ParseNum(raw[col]) < value_limits[col][1]
        \/ ParseNum(raw[col]) > value_limits[col][2]

AllInRange(df) ==
    \A i \in 1..Len(df) : \A col \in LimitedSelected : InRange(df[i].c[col], col)

\* C2: apply_limits blanks the whole row of a value outside [min, max] of any
\* limited selected column, the second dropna drops such rows, and every value
\* of a limited column that survives is within its limits.
C2_RangeEnforced ==
    /\ pc = "dropna2" =>
          \A i \in 1..Len(df_tmp) :
              IF RawViolates(RawOf(df_tmp[i]))
              THEN \A col \in ColumnsOf(df_tmp[i]) : df_tmp[i].c[col] = NaN
              ELSE ~HasNaN(df_tmp[i])
    /\ (pc \in {"add_time_columns", "groupby"} \/ (pc = "concat" /\ ~Averaging)) =>
          /\ AllInRange(df_tmp)
          /\ \A i \in 1..Len(df_tmp) : ~RawViolates(RawOf(df_tmp[i]))
    /\ AllInRange(big_df)
    /\ AllInRange(df_ret)

\* After apply_limits: one row blanked for the first limited column, another
\* for the second one only.
C2_Witness ==
    /\ pc = "dropna2"
    /\ Len(df_tmp) = 2
    /\ \A i \in 1..2 : \A col \in ColumnsOf(df_tmp[i]) : df_tmp[i].c[col] = NaN
    /\ ParseNum(RawOf(df_tmp[1])["AEZ-P_SUM"]) > 75
    /\ ParseNum(RawOf(df_tmp[2])["AEZ-P_SUM"]) = 10
    /\ ParseNum(RawOf(df_tmp[2])["R_BauBGa-P_SUM"]) < 5

\* The cleaned batch of a source that no step rejects: lines 95 to 104.
CleanedBatch(rows) ==
    dropna(apply_limits(
        apply_type_conversion(
            dropna(applymap_contains_error(read_csv(rows, col_of_interest).df)),
            col_of_interest).df,
        col_of_interest))

\* The (date, hour) key of a cleaned row: its YYYYMMDD and the number its hhmmss
\* starts with.
DateHour(row) ==
    <<row.c["YYYYMMDD"].s, ParseNum(Slice(row.c["hhmmss"].s, 0, 2))>>

DateHours(df) == {DateHour(df[i]) : i \in 1..Len(df)}

RECURSIVE SetSum(_, _, _)
\* The sum of column col over the rows of df at the positions in S.
SetSum(df, col, S) ==
    IF S = {} THEN 0
    ELSE LET i == CHOOSE x \in S : TRUE
         IN  df[i].c[col].n + SetSum(df, col, S \ {i})

\* The selected columns the catalog types as numbers.
NumericSelected ==
    {col \in Selected \cap DOMAIN keyword_type_map :
        keyword_type_map[col] = "float64"}

\* C3: the aggregated batch of a source has one row per distinct (date, hour)
\* of its cleaned rows, and in it every numeric column is the arithmetic mean
\* of that column over the cleaned rows of that (date, hour).
C3_AggregationGrouping ==
    (pc = "concat" /\ Averaging) =>
        LET cl == CleanedBatch(Source.rows)
        IN  /\ Len(df_tmp) = Cardinality(DateHours(cl))
            /\ \A g \in 1..Len(df_tmp) :
                  LET a == df_tmp[g].c
                      members == {i \in 1..Len(cl) :
                                    DateHour(cl[i]) = <<a["YYYYMMDD"].s, a["Hour"].n>>}
                  IN  /\ members # {}
                      /\ a["Hour"].d = 1
                      /\ \A col \in NumericSelected :
                            /\ col \in DOMAIN a
                            /\ a[col].d > 0
                            /\ a[col].n * Cardinality(members)
                                  = a[col].d * SetSum(cl, col, members)

\* Two cleaned rows of one (date, hour) with the values 10 and 20 became one
\* aggregated row with the value 15.
C3_Witness ==
    /\ pc = "concat"
    /\ Averaging
    /\ Len(CleanedBatch(Source.rows)) = 2
    /\ Len(df_tmp) = 1
    /\ df_tmp[1].c["AEZ-P_SUM"] = FloatCell(15, 1)

\* The aggregated batch of a source that no step rejects: lines 128 to 140.
SourceBatch(rows) == groupby_mean(add_time_columns(CleanedBatch(rows)).df)

RECURSIVE SourceBatches(_)
\* The aggregated batches of the .csv sources of a listing, one after the
\* other in the order of the listing.
SourceBatches(listing) ==
    IF Len(listing) = 0 THEN <<>>
    ELSE (IF listing[1].csv THEN SourceBatch(listing[1].rows) ELSE <<>>)
         \o SourceBatches(Tail(listing))

\* The rows load_multiple_datasets_average_hours returns for one directory.
RowsOfDirectory(listing) == Reindex(SourceBatches(listing), 0)

RECURSIVE RowsOfDirectories(_)
RowsOfDirectories(dirs) ==
    IF Len(dirs) = 0 THEN <<>>
    ELSE RowsOfDirectory(dirs[1]) \o RowsOfDirectories(Tail(dirs))

\* C4: load_multiple_datasets_average_hours returns the rows of its first
\* directory followed by those of its second one, nothing removed, and a
\* directory's rows are its sources' batches in the order of the listing.
C4_ConcatenationOrder ==
    /\ (pc = "return" /\ Averaging) => big_df = RowsOfDirectory(fs[d])
    /\ (pc = "done" /\ op = "multiple") => df_ret = RowsOfDirectories(fs)

\* Two directories that produce the same row: it is returned twice.
C4_Witness ==
    /\ pc = "done"
    /\ op = "multiple"
    /\ Len(fs) = 2
    /\ Len(RowsOfDirectory(fs[1])) = 1
    /\ RowsOfDirectory(fs[1]) = RowsOfDirectory(fs[2])
    /\ Len(df_ret) = 2

RECURSIVE GroupCount(_)
\* The distinct (date, hour) of the cleaned rows, summed over the .csv sources
\* of a listing.
GroupCount(listing) ==
    IF Len(listing) = 0 THEN 0
    ELSE (IF listing[1].csv
          THEN Cardinality(DateHours(CleanedBatch(listing[1].rows)))
          ELSE 0)
         + GroupCount(Tail(listing))

RECURSIVE GroupCounts(_)
GroupCounts(dirs) ==
    IF Len(dirs) = 0 THEN 0
    ELSE GroupCount(dirs[1]) + GroupCounts(Tail(dirs))

\* C10: the averaging loaders return as many rows as their sources have
\* distinct (date, hour) keys, each source counted for itself: rows of two
\* sources are never averaged into one.
C10_AggregationPerSource ==
    /\ (pc = "return" /\ Averaging) => Len(big_df) = GroupCount(fs[d])
    /\ (pc = "done" /\ op = "average_hours") => Len(big_df) = GroupCount(fs[1])
    /\ (pc = "done" /\ op = "multiple") => Len(df_ret) = GroupCounts(fs)

\* One directory, two sources with a row of the same (date, hour) each: the
\* result holds the key twice.
C10_Witness ==
    /\ pc = "done"
    /\ op = "average_hours"
    /\ Len(big_df) = 2
    /\ big_df[1].c["Hour"] = big_df[2].c["Hour"]
    /\ big_df[1].c["YYYYMMDD"] = big_df[2].c["YYYYMMDD"]

\* ------------------------------------------------ sanitizing a clean batch
\* The frame the source was parsed into, before any step of the sanitizer.
RawFrame == read_csv(Source.rows, col_of_interest).df

\* The five steps of the sanitizer: lines 96 to 104.
Sanitize(df) ==
    LET r == apply_type_conversion(dropna(applymap_contains_error(df)),
                                   col_of_interest)
    IN  IF r.exc # NoExc THEN r
        ELSE Returns(dropna(apply_limits(r.df, col_of_interest)))

\* No cell with the error marker, no missing value, every limited column
\* within its limits.
IsClean(df) ==
    \A i \in 1..Len(df) :
        /\ \A col \in ColumnsOf(df[i]) :
              ~HasSub(Format(df[i].c[col]), ErrMarker)
        /\ ~HasNaN(df[i])
        /\ \A col \in LimitedSelected : InRange(df[i].c[col], col)

\* The same value, whatever its type: the same number, or the same text.
SameValue(a, b) ==
    \/ IsNum(a) /\ IsNum(b) /\ a.n * b.d = b.n * a.d
    \/ Format(a) = Format(b)

SameRows(a, b) ==
    /\ Len(a) = Len(b)
    /\ \A i \in 1..Len(a) :
          /\ a[i].idx = b[i].idx
          /\ ColumnsOf(a[i]) = ColumnsOf(b[i])
          /\ \A col \in ColumnsOf(a[i]) : SameValue(a[i].c[col], b[i].c[col])

\* Every cell of a column the catalog types as a number is a number, or a text
\* that reads as one.
AllParseable(df) ==
    \A i \in 1..Len(df) : \A col \in NumericSelected :
        CanCast(df[i].c[col], "float64")

\* Every cell has the type the catalog declares for its column.
HasCatalogTypes(df) ==
    \A i \in 1..Len(df) : \A col \in ColumnsOf(df[i]) :
        df[i].c[col].k = (IF keyword_type_map[col] = "float64" THEN "float"
                          ELSE "str")

KnownSelection == Selected \subseteq DOMAIN keyword_type_map

\* df_tmp is the batch the sanitizer returned.
AfterSanitize == pc = "add_time_columns" \/ (pc = "concat" /\ ~Averaging)

\* C5 as stated: the sanitizer returns every batch that is clean (no error
\* marker, no missing value, limited columns within their limits) with the
\* same rows and values.
C5_CleanBatchUnchanged ==
    (KnownSelection /\ (AfterSanitize \/ exc.at = "astype")) =>
        (IsClean(RawFrame) =>
            /\ exc.type = NoExc
            /\ SameRows(df_tmp, RawFrame))

\* C5, amended: the sanitizer returns a clean batch whose cells all read as
\* their catalog types with the same rows and values, of the catalog's types;
\* it rejects a clean batch with a cell that does not; and it returns what it
\* returned unchanged: sanitize(sanitize(b)) = sanitize(b).
C5_Idempotent ==
    /\ (KnownSelection /\ AfterSanitize) =>
          /\ HasCatalogTypes(df_tmp)
          /\ IsClean(df_tmp)
          /\ Sanitize(df_tmp) = Returns(df_tmp)
          /\ IsClean(RawFrame) => SameRows(df_tmp, RawFrame)
    /\ (KnownSelection /\ exc.at = "astype" /\ IsClean(RawFrame)) =>
          ~AllParseable(RawFrame)
    /\ (KnownSelection /\ pc = "astype" /\ IsClean(RawFrame)
          /\ AllParseable(RawFrame)) =>
          /\ apply_type_conversion(df_tmp, col_of_interest).exc = NoExc
          /\ SameRows(df_tmp, RawFrame)

\* The sanitizer returned a clean batch of two rows, each cell of the type of
\* the catalog: a date that was read as an int is a str now.
C5_Witness ==
    /\ AfterSanitize
    /\ KnownSelection
    /\ IsClean(RawFrame)
    /\ Len(df_tmp) = 2
    /\ RawFrame[1].c["YYYYMMDD"].k = "int"
    /\ df_tmp[1].c["YYYYMMDD"].k = "str"

\* --------------------------------------------------------- unknown column
HasUnknown == ~KnownSelection

NoCsv == \A x \in 1..Len(fs) : \A y \in 1..Len(fs[x]) : ~fs[x][y].csv

\* C6 as stated: with a selected column the catalog does not know, the error
\* comes before any file is read: no source is ever parsed.
C6_RejectedUpFront ==
    HasUnknown =>
        /\ pc \notin {"applymap", "dropna1", "astype"}
        /\ exc.at \notin {"read_csv", "astype"}

\* C6, amended: with a selected column the catalog does not know, the load
\* fails while the first .csv source is processed, when it is parsed (KeyError:
\* the file has no such column) or when its types are converted (KeyError of
\* the catalog, or the ValueError of a column converted before), and nothing is
\* accumulated; a call that finds no .csv source returns the empty dataset.
C6_UnknownColumn ==
    HasUnknown =>
        /\ big_df = <<>> /\ df_ret = <<>>
        /\ file_cnt <= 1
        /\ pc \notin {"apply_limits", "dropna2", "add_time_columns", "groupby",
                      "concat"}
        /\ exc.type # NoExc =>
              /\ file_cnt = 1
              /\ exc.at \in {"read_csv", "astype"}
              /\ exc.type \in {"KeyError", "ValueError"}
              /\ exc.at = "read_csv" => exc.type = "KeyError"
        /\ pc = "done" => NoCsv

\* The catalog lookup failed after a source with rows was opened and parsed.
C6_Witness ==
    /\ HasUnknown
    /\ pc = "raised"
    /\ exc = [type |-> "KeyError", at |-> "astype"]
    /\ Len(Source.rows) > 0
    /\ Len(df_tmp) > 0

\* ------------------------------------------------------------ time fields
MonthText(row) == Slice(row.c["YYYYMMDD"].s, 4, 6)
DayText(row) == Slice(row.c["YYYYMMDD"].s, 6, 8)
HourText(row) == Slice(row.c["hhmmss"].s, 0, 2)

SlicesNumeric(row) ==
    IsNumeric(MonthText(row)) /\ IsNumeric(DayText(row)) /\ IsNumeric(HourText(row))

\* C7 as stated: add_time_columns goes through only when every YYYYMMDD has
\* its 8 characters, every hhmmss its 6, and the slices are numbers.
C7_ShortFieldsFail ==
    pc = "groupby" =>
        \A i \in 1..Len(df_tmp) :
            /\ Len(df_tmp[i].c["YYYYMMDD"].s) >= 8
            /\ Len(df_tmp[i].c["hhmmss"].s) >= 6
            /\ SlicesNumeric(df_tmp[i])

\* C7, amended: add_time_columns fails (ValueError) exactly when, in some row,
\* the characters [4:6] or [6:8] of YYYYMMDD or [0:2] of hhmmss are none or do
\* not read as a number; a shorter field whose slices read as numbers is
\* accepted, and Month, Day and Hour are the numbers of the slices.
C7_MalformedSliceFails ==
    /\ pc = "groupby" =>
          \A i \in 1..Len(df_tmp) :
              /\ SlicesNumeric(df_tmp[i])
              /\ df_tmp[i].c["Month"] = FloatCell(ParseNum(MonthText(df_tmp[i])), 1)
              /\ df_tmp[i].c["Day"] = FloatCell(ParseNum(DayText(df_tmp[i])), 1)
              /\ df_tmp[i].c["Hour"] = FloatCell(ParseNum(HourText(df_tmp[i])), 1)
    /\ exc.at = "add_time_columns" =>
          /\ exc.type = "ValueError"
          /\ \E i \in 1..Len(df_tmp) : ~SlicesNumeric(df_tmp[i])
          /\ \A i \in 1..Len(df_tmp) : "Hour" \notin ColumnsOf(df_tmp[i])

\* A date of six characters: the Day slice is empty and the load failed.
C7_Witness ==
    /\ pc = "raised"
    /\ exc = [type |-> "ValueError", at |-> "add_time_columns"]
    /\ \E i \in 1..Len(df_tmp) :
          Len(df_tmp[i].c["YYYYMMDD"].s) = 6 /\ DayText(df_tmp[i]) = <<>>

\* ------------------------------------------------- one source at a time
\* The cells of the rows of a frame, without the index.
Cells(df) == [i \in 1..Len(df) |-> df[i].c]

C8_HandleState ==
    /\ Cardinality(open) <= 1
    /\ open # {} => open = {<<d, fi>>}
    /\ pc \in {"for_d", "enter", "for_filename", "open", "return", "done",
               "raised"} => open = {}
    /\ pc = "concat" =>
          /\ exc.type = NoExc
          /\ df_tmp = (IF Averaging THEN SourceBatch(Source.rows)
                       ELSE CleanedBatch(Source.rows))

C8_AccumulatorStep ==
    /\ big_df' # big_df =>
          \/ pc = "enter" /\ big_df' = <<>>
          \/ /\ pc = "concat"
             /\ open = {<<d, fi>>}
             /\ Cells(big_df') = Cells(big_df) \o Cells(df_tmp)
    /\ exc'.type # NoExc => big_df' = big_df
    /\ \A h \in open' \ open : open = {}

RawHasMissing(raw) == \E col \in Selected : raw[col] = <<>>

RECURSIVE KeptIndex(_, _)
\* The index labels of the rows, from the j-th on, without an error marker and
\* without a missing value.
KeptIndex(rows, j) ==
    IF j > Len(rows) THEN <<>>
    ELSE (IF RawHasErr(rows[j]) \/ RawHasMissing(rows[j]) THEN <<>>
          ELSE <<j - 1>>)
         \o KeptIndex(rows, j + 1)

==========================================================================
